---- MODULE Spec2Model ----
(***************************************************************************)
(* A model of streamlit_app.py: the module-level environment check and one *)
(* run of main() (auth -> search -> select -> enrich -> display), with the *)
(* HTTP and OpenAI answers drawn nondeterministically, and the pure string *)
(* processing of recommend_dj_places and the prompt construction of        *)
(* generate_image_based_on_description computed as the code computes them. *)
(*                                                                         *)
(* Python values are tagged records so that None, "", [] and {} stay       *)
(* distinct values that are all falsy, as in the source.  Texts processed  *)
(* character by character are sequences of one-character strings.          *)
(* Feature values in [0,1] are kept in tenths (energy 0.9 is 9).           *)
(*                                                                         *)
(* The catalog and generative services are the environment.  They answer   *)
(* by their public contracts: a 200 answer of the search endpoint holds at *)
(* most `limit` tracks, and a 200 answer of the audio-features endpoint is *)
(* either empty or carries every audio feature.                            *)
(***************************************************************************)
EXTENDS Integers, Sequences, FiniteSets, TLC

VARIABLES
    env,              \* SPOTIFY_CLIENT_ID, SPOTIFY_CLIENT_SECRET, OPENAI_API_KEY
    pc,               \* position of the script
    track_name,       \* st.text_input value
    access_token,     \* main's access_token
    tracks,           \* main's tracks (list of track objects)
    track_options,    \* main's track_options
    selected_index,   \* main's selected_index (-1 before the selection)
    track_id,         \* main's track_id
    features,         \* main's features
    chat_content,     \* content of the venue chat completion, before processing
    dj_places,        \* main's dj_places
    description,      \* generate_image_based_on_description's description
    image_url,        \* main's image_url
    recommendations,  \* main's recommendations
    requests,         \* history: the requests issued, in order
    calls,            \* history: the functions main() called, in order
    shown             \* history: what was displayed, in order

vars ==
    <<env, pc, track_name, access_token, tracks, track_options, selected_index,
      track_id, features, chat_content, dj_places, description, image_url,
      recommendations, requests, calls, shown>>

-----------------------------------------------------------------------------
(* Bounds of the model *)

MaxCatalog == 6
MaxLen == 4

(* Program constants *)

HTTP_OK == 200
SearchLimit == 5
RecommendationLimit == 10
MaxPromptLen == 1000
TruncatedPromptLen == 997

-----------------------------------------------------------------------------
(* Python values *)

PyNone ==
    [type |-> "NoneType"]
PyStr(s) ==
    [type |-> "str", v |-> s]
PyList(l) ==
    [type |-> "list", v |-> l]
PyDict(d) ==
    [type |-> "dict", v |-> d]
EmptyDict ==
    PyDict(<<>>)

\* Python truthiness, as used by `if x:` and `not x`
Truthy(x) ==
    CASE x.type = "NoneType" -> FALSE
      [] x.type = "str" -> x.v # ""
      [] x.type = "list" -> Len(x.v) > 0
      [] x.type = "dict" -> DOMAIN x.v # {}

\* dict.get(key) with the default None
DictGet(d, key) ==
    IF key \in DOMAIN d THEN d[key] ELSE PyNone

Max(a, b) ==
    IF a >= b THEN a ELSE b
Min(a, b) ==
    IF a <= b THEN a ELSE b

-----------------------------------------------------------------------------
(* Python string methods, on sequences of one-character strings *)

Digits ==
    {"0", "1", "2", "3", "4", "5", "6", "7", "8", "9"}
Whitespace ==
    {" ", "\n", "\t", "\r"}
\* the characters of the argument of lstrip("0123456789. ")
NumberingChars ==
    Digits \cup {".", " "}

RECURSIVE LStrip(_, _)
\* str.lstrip(chars): drops every leading character that is in chars
LStrip(s, chars) ==
    IF s = <<>> THEN s
    ELSE IF Head(s) \in chars THEN LStrip(Tail(s), chars)
    ELSE s

RECURSIVE RStrip(_, _)
RStrip(s, chars) ==
    IF s = <<>> THEN s
    ELSE IF s[Len(s)] \in chars THEN RStrip(SubSeq(s, 1, Len(s) - 1), chars)
    ELSE s

\* str.strip()
Strip(s) ==
    RStrip(LStrip(s, Whitespace), Whitespace)

RECURSIVE Split(_, _)
\* str.split(sep) for a one-character sep: "".split(sep) is [""]
Split(s, sep) ==
    IF \A i \in 1..Len(s) : s[i] # sep THEN <<s>>
    ELSE LET k == CHOOSE i \in 1..Len(s) :
                      s[i] = sep /\ \A j \in 1..(i - 1) : s[j] # sep
         IN <<SubSeq(s, 1, k - 1)>> \o Split(SubSeq(s, k + 1, Len(s)), sep)

\* [f(place) for place in places if place], with f = lstrip("0123456789. ")
RECURSIVE CleanEach(_)
CleanEach(places) ==
    IF places = <<>> THEN <<>>
    ELSE IF Head(places) # <<>>
         THEN <<LStrip(Head(places), NumberingChars)>> \o CleanEach(Tail(places))
         ELSE CleanEach(Tail(places))

\* recommend_dj_places, lines 115-117: the processing of the response content
clean_places(content) ==
    CleanEach(Split(Strip(content), "\n"))

\* rendered length of a number in an f-string
RECURSIVE NumLen(_)
NumLen(n) ==
    IF n < 0 THEN 1 + NumLen(-n)
    ELSE IF n < 10 THEN 1
    ELSE 1 + NumLen(n \div 10)

\* characters of the fixed text of the image prompt
PromptTextLen ==
    200

\* generate_image_based_on_description, lines 155-158: the image prompt.  It is
\* formatted from five audio features; the description is not an input of it.
prompt_instruction(feats, desc) ==
    LET n == PromptTextLen + NumLen(feats.acousticness) + NumLen(feats.danceability)
                 + NumLen(feats.energy) + NumLen(feats.tempo) + NumLen(feats.valence)
    IN [text |-> "Generate an abstract, visually stunning HD art piece",
        acousticness |-> feats.acousticness,
        danceability |-> feats.danceability,
        energy |-> feats.energy,
        tempo |-> feats.tempo,
        valence |-> feats.valence,
        length |-> IF n > MaxPromptLen THEN TruncatedPromptLen + 3 ELSE n,
        truncated |-> n > MaxPromptLen]

\* get_track_recommendations, lines 181-190 (values in [0,1] in tenths)
recommendation_params(id, feats) ==
    [seed_tracks |-> id,
     limit |-> RecommendationLimit,
     min_energy |-> Max(0, feats.energy - 1),
     max_energy |-> Min(10, feats.energy + 1),
     min_tempo |-> Max(0, feats.tempo - 10),
     max_tempo |-> feats.tempo + 10,
     min_danceability |-> Max(0, feats.danceability - 1),
     max_danceability |-> Min(10, feats.danceability + 1)]

\* search_tracks, lines 56-60
search_params(name) ==
    [q |-> name, type |-> "track", limit |-> SearchLimit]

\* f'Bearer {access_token}'
Bearer(token) ==
    IF token.type = "str" THEN <<"Bearer", token.v>> ELSE <<"Bearer", "None">>

-----------------------------------------------------------------------------
(* The environment: what the user enters and what the services answer *)

EnvValues ==
    {PyNone, PyStr(""), PyStr("set")}

TrackNames ==
    {PyStr(""), PyStr("song")}

\* an HTTP answer: the request raised, or a status code and a JSON body
Answer(raises, status, json) ==
    [raises |-> raises, status |-> status, json |-> json]
ErrorAnswers ==
    {Answer(FALSE, 401, [error |-> PyStr("denied")]),
     Answer(FALSE, 500, [error |-> PyStr("server")]),
     Answer(TRUE, 0, <<>>)}

TokenAnswers ==
    {Answer(FALSE, HTTP_OK, [access_token |-> PyStr(t)]) : t \in {"", "tokA", "tokB"}}
        \cup {Answer(FALSE, HTTP_OK, [token_type |-> PyStr("Bearer")])}
        \cup ErrorAnswers

\* the catalog's tracks; every other one has no album image
Catalog ==
    [i \in 1..MaxCatalog |->
        [id |-> i,
         name |-> <<"name", i>>,
         artists |-> <<[name |-> <<"artist", i>>]>>,
         album |-> [name |-> <<"album", i>>,
                    images |-> IF i % 2 = 0 THEN <<>> ELSE <<[url |-> <<"art", i>>]>>]]]

\* the search endpoint answers a request with at most params.limit tracks
SearchAnswers(params) ==
    {Answer(FALSE, HTTP_OK, [tracks |-> [items |-> SubSeq(Catalog, p[1], p[2])]]) :
        p \in {q \in (1..MaxCatalog) \X (0..MaxCatalog) : q[2] - q[1] + 1 <= params.limit}}
        \cup {Answer(FALSE, HTTP_OK, [albums |-> [items |-> <<>>]])}
        \cup ErrorAnswers

FeatureSamples ==
    {[acousticness |-> 1, danceability |-> 9, energy |-> 10, instrumentalness |-> 0,
      liveness |-> 2, loudness |-> -5, speechiness |-> 1, tempo |-> 128, valence |-> 7],
     [acousticness |-> 9, danceability |-> 0, energy |-> 0, instrumentalness |-> 8,
      liveness |-> 1, loudness |-> -20, speechiness |-> 0, tempo |-> 5, valence |-> 2]}

FeaturesAnswers ==
    {Answer(FALSE, HTTP_OK, f) : f \in FeatureSamples}
        \cup {Answer(FALSE, HTTP_OK, <<>>)}
        \cup ErrorAnswers

RecommendationsAnswers ==
    {Answer(FALSE, HTTP_OK, [tracks |-> SubSeq(Catalog, 1, n)]) : n \in 0..2}
        \cup {Answer(FALSE, HTTP_OK, [seeds |-> <<>>])}
        \cup ErrorAnswers

\* an OpenAI answer: the content (or URL) returned, or the exception raised
OpenAIAnswers(contents) ==
    {[kind |-> "ok", content |-> c] : c \in contents}
        \cup {[kind |-> k, content |-> <<>>] : k \in {"OpenAIError", "Exception"}}

PlacesSamples ==
    {<<"1", ".", " ", "a", "\n", "2", ".", " ", "b">>,
     <<" ", "a", "\n", "\n", "b", "\n">>,
     <<"\n">>}

DescriptionSamples ==
    {<<" ", "c", "a", "l", "m">>, <<"l", "o", "u", "d", "\n">>}

ImageUrls ==
    {<<"https://image/1">>}

\* every response content of at most MaxLen characters
Alphabet ==
    {"1", ".", " ", "a", "\n"}
AllTexts ==
    UNION {[1..n -> Alphabet] : n \in 0..MaxLen}

-----------------------------------------------------------------------------
(* The functions of the script.  Each returns what the Python function     *)
(* returns (ret), the st.error messages it displays (error) and whether an *)
(* exception leaves it (raised).                                           *)

Returned(value) ==
    [ret |-> value, error |-> <<>>, raised |-> FALSE]
Failed(value, message) ==
    [ret |-> value, error |-> <<message>>, raised |-> FALSE]

\* a variant of EnvMissing: `and` where the source has `or`
EnvMissing_and(e) ==
    /\ ~Truthy(e.SPOTIFY_CLIENT_ID)
    /\ ~Truthy(e.SPOTIFY_CLIENT_SECRET)
    /\ ~Truthy(e.OPENAI_API_KEY)

\* lines 18: not ID or not SECRET or not KEY
EnvMissing(e) ==
    \/ ~Truthy(e.SPOTIFY_CLIENT_ID)
    \/ ~Truthy(e.SPOTIFY_CLIENT_SECRET)
    \/ ~Truthy(e.OPENAI_API_KEY)

\* lines 26-47
get_spotify_access_token(resp) ==
    IF resp.raises THEN Failed(PyNone, "Error during authentication")
    ELSE IF resp.status = HTTP_OK THEN Returned(DictGet(resp.json, "access_token"))
    ELSE Failed(PyNone, "Failed to get access token")

\* lines 50-70; line 63 is response.json().get('tracks', {}).get('items', [])
search_tracks(resp) ==
    IF resp.raises THEN Failed(PyList(<<>>), "Error during track search")
    ELSE IF resp.status = HTTP_OK
         THEN Returned(PyList(IF "tracks" \in DOMAIN resp.json
                                 /\ "items" \in DOMAIN resp.json.tracks
                              THEN resp.json.tracks.items
                              ELSE <<>>))
    ELSE Failed(PyList(<<>>), "Error searching for track")

\* a variant of get_audio_features without the except clause
get_audio_features_no_except(resp) ==
    IF resp.raises THEN [ret |-> PyNone, error |-> <<>>, raised |-> TRUE]
    ELSE IF resp.status = HTTP_OK THEN Returned(PyDict(resp.json))
    ELSE Failed(PyNone, "Error fetching data")

\* lines 73-87
get_audio_features(resp) ==
    IF resp.raises THEN Failed(PyNone, "Error fetching audio features")
    ELSE IF resp.status = HTTP_OK THEN Returned(PyDict(resp.json))
    ELSE Failed(PyNone, "Error fetching data")

\* lines 107-124
recommend_dj_places(answer) ==
    IF answer.kind = "ok" THEN Returned(PyList(clean_places(answer.content)))
    ELSE IF answer.kind = "OpenAIError" THEN Failed(PyNone, "OpenAI API error")
    ELSE Failed(PyNone, "Unexpected error")

\* lines 170-175: the except clauses of generate_image_based_on_description
image_failure(answer) ==
    IF answer.kind = "OpenAIError" THEN Failed(PyNone, "OpenAI API error")
    ELSE Failed(PyNone, "Unexpected error")

\* lines 178-203
get_track_recommendations(resp) ==
    IF resp.raises THEN Failed(PyList(<<>>), "Error fetching recommendations")
    ELSE IF resp.status = HTTP_OK
         THEN Returned(PyList(IF "tracks" \in DOMAIN resp.json
                              THEN resp.json.tracks ELSE <<>>))
    ELSE Failed(PyList(<<>>), "Error fetching recommendations")

\* lines 249-257: one track_info per track, in order
RECURSIVE build_track_options(_)
build_track_options(items) ==
    IF items = <<>> THEN <<>>
    ELSE LET track == Head(items)
         IN <<[id |-> track.id,
               name |-> track.name,
               artist |-> track.artists[1].name,
               album |-> track.album.name,
               album_art |-> IF Len(track.album.images) > 0
                             THEN PyStr(track.album.images[1].url)
                             ELSE PyNone]>>
            \o build_track_options(Tail(items))

\* lines 268-273: the values st.number_input(min_value=1, max_value=n, step=1) returns
number_input(n) ==
    1..n

\* line 273: the entered number, less one
index_of(number) ==
    number - 1

\* line 275
index_valid(index, options) ==
    0 <= index /\ index < Len(options)

\* a variant of selected_track: the index counted from the end of the list
selected_track_from_end(options, index) ==
    options[Len(options) - index]

\* line 276: track_options[selected_index] (Python indexes from 0)
selected_track(options, index) ==
    options[index + 1]

\* a variant of has_token: the token is not tested
has_token_unchecked(token) ==
    TRUE

\* line 241: if access_token
has_token(token) ==
    Truthy(token)

(* The requests, as recorded in the history *)

Request(endpoint, purpose, bearer, id, arg, answer, failed) ==
    [endpoint |-> endpoint, purpose |-> purpose, bearer |-> bearer, track_id |-> id,
     arg |-> arg, answer |-> answer, failed |-> failed]
NoBearer ==
    <<>>
HttpFailed(resp) ==
    resp.raises \/ resp.status # HTTP_OK

\* lines 28-37
token_request(e, resp) ==
    Request("token", "token", NoBearer, 0,
            [grant_type |-> "client_credentials",
             client_id |-> e.SPOTIFY_CLIENT_ID,
             client_secret |-> e.SPOTIFY_CLIENT_SECRET],
            resp, HttpFailed(resp))

\* lines 52-61
search_request(name, token, resp) ==
    Request("search", "search", Bearer(token), 0, search_params(name), resp,
            HttpFailed(resp))

\* a variant of audio_features_request: a fixed token in the header
audio_features_request_fixed_token(id, token, resp) ==
    Request("audio-features", "audio-features", Bearer(PyStr("tokA")), id, <<>>, resp,
            HttpFailed(resp))

\* lines 75-79
audio_features_request(id, token, resp) ==
    Request("audio-features", "audio-features", Bearer(token), id, <<>>, resp,
            HttpFailed(resp))

\* lines 180-194
recommendations_request(id, feats, token, resp) ==
    Request("recommendations", "recommendations", Bearer(token), id,
            recommendation_params(id, feats), resp, HttpFailed(resp))

\* lines 108-113 and 146-151
chat_request(purpose, feats, answer) ==
    Request("chat", purpose, NoBearer, 0, feats, answer, answer.kind # "ok")

\* lines 161-165
image_request(prompt, answer) ==
    Request("image", "image", NoBearer, 0, prompt, answer, answer.kind # "ok")

-----------------------------------------------------------------------------
(* The script, one action per step *)

NoRun ==
    /\ track_name = PyStr("")
    /\ access_token = PyNone
    /\ tracks = PyList(<<>>)
    /\ track_options = PyList(<<>>)
    /\ selected_index = -1
    /\ track_id = 0
    /\ features = PyNone
    /\ chat_content = <<>>
    /\ dj_places = PyNone
    /\ description = <<>>
    /\ image_url = PyNone
    /\ recommendations = PyList(<<>>)
    /\ requests = <<>>
    /\ calls = <<>>
    /\ shown = <<>>

\* lines 10-15: load_dotenv and os.getenv
Init ==
    /\ env \in [SPOTIFY_CLIENT_ID : EnvValues, SPOTIFY_CLIENT_SECRET : EnvValues,
                OPENAI_API_KEY : EnvValues]
    /\ pc = "load"
    /\ NoRun

\* lines 17-23 and 321-322
EnvCheck ==
    /\ pc = "load"
    /\ IF EnvMissing(env)
       THEN /\ shown' = Append(shown, "One or more environment variables are missing")
            /\ pc' = "stopped"
       ELSE /\ shown' = shown
            /\ pc' = "main"
    /\ UNCHANGED <<env, track_name, access_token, tracks, track_options, selected_index,
                   track_id, features, chat_content, dj_places, description, image_url,
                   recommendations, requests, calls>>

\* lines 232-238 and 318-319
MainStart ==
    /\ pc = "main"
    /\ \E name \in TrackNames :
         /\ track_name' = name
         /\ IF Truthy(name)
            THEN /\ shown' = Append(shown, "DJAI - The DJ's AI Assistant")
                 /\ pc' = "auth"
            ELSE /\ shown' = shown \o <<"DJAI - The DJ's AI Assistant",
                                        "Please enter a track name to begin.">>
                 /\ pc' = "done"
    /\ UNCHANGED <<env, access_token, tracks, track_options, selected_index, track_id,
                   features, chat_content, dj_places, description, image_url,
                   recommendations, requests, calls>>

\* a variant of Auth: a failed token request is issued once more
Auth_retrying ==
    /\ pc = "auth"
    /\ \E resp \in TokenAnswers :
         LET r == get_spotify_access_token(resp)
         IN /\ requests' = Append(requests, token_request(env, resp))
            /\ calls' = Append(calls, "get_spotify_access_token")
            /\ access_token' = r.ret
            /\ IF has_token(r.ret)
               THEN /\ shown' = shown \o r.error
                    /\ pc' = "search"
               ELSE IF Len(requests) = 0
               THEN /\ shown' = shown \o r.error
                    /\ pc' = "auth"
               ELSE /\ shown' = shown \o r.error
                           \o <<"Failed to obtain Spotify access token.">>
                    /\ pc' = "done"
    /\ UNCHANGED <<env, track_name, tracks, track_options, selected_index, track_id,
                   features, chat_content, dj_places, description, image_url,
                   recommendations>>

\* lines 239-241 and 316-317
Auth ==
    /\ pc = "auth"
    /\ \E resp \in TokenAnswers :
         LET r == get_spotify_access_token(resp)
         IN /\ requests' = Append(requests, token_request(env, resp))
            /\ calls' = Append(calls, "get_spotify_access_token")
            /\ IF r.raised
               THEN /\ pc' = "crashed"
                    /\ UNCHANGED <<access_token, shown>>
               ELSE /\ access_token' = r.ret
                    /\ IF has_token(r.ret)
                       THEN /\ shown' = shown \o r.error
                            /\ pc' = "search"
                       ELSE /\ shown' = shown \o r.error
                                   \o <<"Failed to obtain Spotify access token.">>
                            /\ pc' = "done"
    /\ UNCHANGED <<env, track_name, tracks, track_options, selected_index, track_id,
                   features, chat_content, dj_places, description, image_url,
                   recommendations>>

\* lines 242-266 and 314-315
Search ==
    /\ pc = "search"
    /\ \E resp \in SearchAnswers(search_params(track_name.v)) :
         LET r == search_tracks(resp)
         IN /\ requests' = Append(requests, search_request(track_name.v, access_token, resp))
            /\ calls' = Append(calls, "search_tracks")
            /\ IF r.raised
               THEN /\ pc' = "crashed"
                    /\ UNCHANGED <<tracks, track_options, shown>>
               ELSE /\ tracks' = r.ret
                    /\ IF Truthy(r.ret)
                       THEN /\ track_options' = PyList(build_track_options(r.ret.v))
                            /\ shown' = shown \o r.error \o <<"Select the correct track">>
                            /\ pc' = "select"
                       ELSE /\ track_options' = track_options
                            /\ shown' = shown \o r.error
                                   \o <<"No tracks found for the given search">>
                            /\ pc' = "done"
    /\ UNCHANGED <<env, track_name, access_token, selected_index, track_id, features,
                   chat_content, dj_places, description, image_url, recommendations>>

\* lines 268-278
Select ==
    /\ pc = "select"
    /\ \E number \in number_input(Len(track_options.v)) :
         LET index == index_of(number)
         IN /\ selected_index' = index
            /\ IF index_valid(index, track_options.v)
               THEN /\ track_id' = selected_track(track_options.v, index).id
                    /\ shown' = Append(shown, "You selected")
                    /\ pc' = "features"
               ELSE /\ UNCHANGED <<track_id, shown>>
                    /\ pc' = "done"
    /\ UNCHANGED <<env, track_name, access_token, tracks, track_options, features,
                   chat_content, dj_places, description, image_url, recommendations,
                   requests, calls>>

\* lines 280-283
Features ==
    /\ pc = "features"
    /\ \E resp \in FeaturesAnswers :
         LET r == get_audio_features(resp)
         IN /\ requests' = Append(requests, audio_features_request(track_id, access_token, resp))
            /\ calls' = Append(calls, "get_audio_features")
            /\ IF r.raised
               THEN /\ pc' = "crashed"
                    /\ UNCHANGED <<features, shown>>
               ELSE /\ features' = r.ret
                    /\ shown' = shown \o r.error
                    /\ pc' = IF Truthy(r.ret) THEN "chart" ELSE "done"
    /\ UNCHANGED <<env, track_name, access_token, tracks, track_options, selected_index,
                   track_id, chat_content, dj_places, description, image_url,
                   recommendations>>

\* lines 284-286 and 206-229
Chart ==
    /\ pc = "chart"
    /\ calls' = Append(calls, "visualize_audio_features")
    /\ shown' = shown \o <<"Audio Features Visualization", "Audio Features Radar Chart">>
    /\ pc' = "places"
    /\ UNCHANGED <<env, track_name, access_token, tracks, track_options, selected_index,
                   track_id, features, chat_content, dj_places, description, image_url,
                   recommendations, requests>>

\* a variant of after_places: the later steps nested under `if dj_places`
after_places_nested(places) ==
    IF Truthy(places) THEN "describe" ELSE "done"

\* lines 297-300: the artwork step follows the venue step whatever dj_places is
after_places(places) ==
    "describe"

\* lines 288-295
Places ==
    /\ pc = "places"
    /\ \E answer \in OpenAIAnswers(PlacesSamples) :
         LET r == recommend_dj_places(answer)
         IN /\ requests' = Append(requests, chat_request("venues", features.v, answer))
            /\ calls' = Append(calls, "recommend_dj_places")
            /\ chat_content' = answer.content
            /\ dj_places' = r.ret
            /\ shown' = shown \o <<"Where would a DJ play this track?">> \o r.error
                   \o (IF Truthy(r.ret)
                       THEN <<"Best Places or Settings for this Track:">>
                       ELSE <<>>)
            /\ pc' = after_places(r.ret)
    /\ UNCHANGED <<env, track_name, access_token, tracks, track_options, selected_index,
                   track_id, features, description, image_url, recommendations>>

\* lines 297-300, 144-152 and 170-175: the description is requested; a failure
\* ends generate_image_based_on_description with None
Describe ==
    /\ pc = "describe"
    /\ \E answer \in OpenAIAnswers(DescriptionSamples) :
         /\ requests' = Append(requests, chat_request("description", features.v, answer))
         /\ calls' = Append(calls, "generate_image_based_on_description")
         /\ IF answer.kind = "ok"
            THEN /\ description' = Strip(answer.content)
                 /\ shown' = Append(shown, "Generated Artwork for this Track")
                 /\ pc' = "image"
                 /\ UNCHANGED image_url
            ELSE /\ image_url' = image_failure(answer).ret
                 /\ shown' = shown \o <<"Generated Artwork for this Track">>
                        \o image_failure(answer).error
                 /\ pc' = "recs"
                 /\ UNCHANGED description
    /\ UNCHANGED <<env, track_name, access_token, tracks, track_options, selected_index,
                   track_id, features, chat_content, dj_places, recommendations>>

\* lines 154-175 and 301-302: the image is requested and displayed
Image ==
    /\ pc = "image"
    /\ \E answer \in OpenAIAnswers(ImageUrls) :
         /\ requests' = Append(requests,
                image_request(prompt_instruction(features.v, description), answer))
         /\ IF answer.kind = "ok"
            THEN /\ image_url' = PyStr(answer.content)
                 /\ shown' = Append(shown, "AI Generated Artwork")
            ELSE /\ image_url' = image_failure(answer).ret
                 /\ shown' = shown \o image_failure(answer).error
         /\ pc' = "recs"
    /\ UNCHANGED <<env, track_name, access_token, tracks, track_options, selected_index,
                   track_id, features, chat_content, dj_places, description,
                   recommendations, calls>>

\* lines 304-313
Recommend ==
    /\ pc = "recs"
    /\ \E resp \in RecommendationsAnswers :
         LET r == get_track_recommendations(resp)
         IN /\ requests' = Append(requests,
                   recommendations_request(track_id, features.v, access_token, resp))
            /\ calls' = Append(calls, "get_track_recommendations")
            /\ IF r.raised
               THEN /\ pc' = "crashed"
                    /\ UNCHANGED <<recommendations, shown>>
               ELSE /\ recommendations' = r.ret
                    /\ shown' = shown \o <<"Similar Track Recommendations">> \o r.error
                           \o (IF Truthy(r.ret) THEN <<"recommended tracks">> ELSE <<>>)
                    /\ pc' = "done"
    /\ UNCHANGED <<env, track_name, access_token, tracks, track_options, selected_index,
                   track_id, features, chat_content, dj_places, description, image_url>>

Next ==
    \/ EnvCheck
    \/ MainStart
    \/ Auth
    \/ Search
    \/ Select
    \/ Features
    \/ Chart
    \/ Places
    \/ Describe
    \/ Image
    \/ Recommend

Spec ==
    Init /\ [][Next]_vars

\* the script runs top to bottom and every request returns or raises
FairSpec ==
    Spec /\ WF_vars(Next)

(* recommend_dj_places' processing alone, on every short response content *)

InitPlaces ==
    /\ env = [SPOTIFY_CLIENT_ID |-> PyStr("set"), SPOTIFY_CLIENT_SECRET |-> PyStr("set"),
              OPENAI_API_KEY |-> PyStr("set")]
    /\ pc = "content"
    /\ track_name = PyStr("")
    /\ access_token = PyNone
    /\ tracks = PyList(<<>>)
    /\ track_options = PyList(<<>>)
    /\ selected_index = -1
    /\ track_id = 0
    /\ features = PyNone
    /\ chat_content \in AllTexts
    /\ dj_places = PyNone
    /\ description = <<>>
    /\ image_url = PyNone
    /\ recommendations = PyList(<<>>)
    /\ requests = <<>>
    /\ calls = <<>>
    /\ shown = <<>>

ProcessContent ==
    /\ pc = "content"
    /\ dj_places' = recommend_dj_places([kind |-> "ok", content |-> chat_content]).ret
    /\ pc' = "cleaned"
    /\ UNCHANGED <<env, track_name, access_token, tracks, track_options, selected_index,
                   track_id, features, chat_content, description, image_url,
                   recommendations, requests, calls, shown>>

NextPlaces ==
    ProcessContent

SpecPlaces ==
    InitPlaces /\ [][NextPlaces]_vars

-----------------------------------------------------------------------------
(* Properties *)

Called(fn) ==
    \E i \in DOMAIN calls : calls[i] = fn
CallCount(fn) ==
    Cardinality({i \in DOMAIN calls : calls[i] = fn})
RequestCount(endpoint) ==
    Cardinality({i \in DOMAIN requests : requests[i].endpoint = endpoint})
Shown(message) ==
    \E i \in DOMAIN shown : shown[i] = message

StageOrder ==
    <<"get_spotify_access_token", "search_tracks", "get_audio_features",
      "visualize_audio_features", "recommend_dj_places",
      "generate_image_based_on_description", "get_track_recommendations">>
Rank(fn) ==
    CHOOSE k \in DOMAIN StageOrder : StageOrder[k] = fn
DisplayStages ==
    {"visualize_audio_features", "recommend_dj_places",
     "generate_image_based_on_description", "get_track_recommendations"}
CatalogReads ==
    {"search", "audio-features", "recommendations"}

\* C1: the functions are called in the order auth, search, (select,) audio
\* features, chart, venues, artwork, recommendations; search_tracks only after a
\* non-empty token was returned, get_audio_features only after a non-empty
\* search result and a selection, the chart and the enrichment functions only
\* after non-empty audio features.
C1_StagesInOrder ==
    /\ \A i, j \in DOMAIN calls : i < j => Rank(calls[i]) < Rank(calls[j])
    /\ Called("search_tracks") =>
          /\ Called("get_spotify_access_token")
          /\ Truthy(access_token)
    /\ Called("get_audio_features") =>
          /\ Called("search_tracks")
          /\ Truthy(tracks)
          /\ selected_index \in 0..(Len(tracks.v) - 1)
    /\ \A fn \in DisplayStages : Called(fn) =>
          /\ Called("get_audio_features")
          /\ Truthy(features)

C1_Witness ==
    /\ pc = "done"
    /\ calls = StageOrder
    /\ Truthy(recommendations)

\* the failure value and the error messages of each of the four functions
FailureHandled(endpoint) ==
    CASE endpoint = "token" ->
            /\ access_token = PyNone
            /\ Shown("Error during authentication") \/ Shown("Failed to get access token")
      [] endpoint = "search" ->
            /\ tracks = PyList(<<>>)
            /\ Shown("Error during track search") \/ Shown("Error searching for track")
      [] endpoint = "audio-features" ->
            /\ features = PyNone
            /\ Shown("Error fetching audio features") \/ Shown("Error fetching data")
      [] endpoint = "recommendations" ->
            /\ recommendations = PyList(<<>>)
            /\ Shown("Error fetching recommendations")

\* C2: when a request of get_spotify_access_token, search_tracks,
\* get_audio_features or get_track_recommendations raises or is answered with a
\* status other than 200, the function displays an error, returns its failure
\* value (None, [], None, []) and no exception reaches main().
C2_FailuresHandled ==
    /\ pc # "crashed"
    /\ \A i \in DOMAIN requests :
          LET q == requests[i]
          IN (q.endpoint \in {"token"} \cup CatalogReads
                /\ (q.answer.raises \/ q.answer.status # 200))
             => FailureHandled(q.endpoint)

C2_Witness ==
    /\ pc = "done"
    /\ \E i \in DOMAIN requests :
          requests[i].endpoint = "audio-features" /\ requests[i].answer.raises
    /\ features = PyNone

\* C3: no request is issued twice in a run: the token, search, audio-features,
\* recommendations and image endpoints are requested at most once, the chat
\* endpoint at most twice (once per purpose), and nothing is requested again
\* after it failed.
C3_NoRetries ==
    /\ \A e \in {"token", "search", "audio-features", "recommendations", "image"} :
          RequestCount(e) <= 1
    /\ RequestCount("chat") <= 2
    /\ \A i, j \in DOMAIN requests :
          (i < j /\ requests[i].endpoint = requests[j].endpoint)
             => /\ requests[i].endpoint = "chat"
                /\ requests[i].purpose = "venues"
                /\ requests[j].purpose = "description"
    /\ \A i, j \in DOMAIN requests :
          (i < j /\ requests[i].failed)
             => ~(/\ requests[i].endpoint = requests[j].endpoint
                  /\ requests[i].purpose = requests[j].purpose)

C3_Witness ==
    /\ pc = "done"
    /\ Len(requests) = 7
    /\ requests[4].endpoint = "chat" /\ requests[4].failed
    /\ requests[5].endpoint = "chat" /\ ~requests[5].failed
    /\ requests[6].endpoint = "image" /\ requests[6].failed
    /\ requests[7].endpoint = "recommendations" /\ requests[7].failed

\* the access_token of the answer to the run's token request
IssuedToken ==
    IF ~requests[1].answer.raises /\ requests[1].answer.status = 200
    THEN DictGet(requests[1].answer.json, "access_token")
    ELSE PyNone

\* C4: every search, audio-features and recommendations request carries
\* exactly the bearer token the token request of the same run was answered
\* with; when the token request fails or is answered without access_token, no
\* such request is made and 'Failed to obtain Spotify access token.' is shown.
C4_BearerIsRunToken ==
    /\ \A i \in DOMAIN requests :
          requests[i].endpoint \in CatalogReads =>
             /\ i > 1
             /\ requests[1].endpoint = "token"
             /\ Truthy(IssuedToken)
             /\ requests[i].bearer = <<"Bearer", IssuedToken.v>>
    /\ (Len(requests) >= 1 /\ ~Truthy(IssuedToken)) =>
          /\ Len(requests) = 1
          /\ requests[1].endpoint = "token"
          /\ Shown("Failed to obtain Spotify access token.")

C4_Witness ==
    /\ pc = "done"
    /\ \E i \in DOMAIN requests :
          /\ requests[i].endpoint = "recommendations"
          /\ requests[i].bearer = <<"Bearer", "tokB">>
    /\ RequestCount("search") = 1
    /\ RequestCount("audio-features") = 1

\* C5: track_options has one entry per search result, in the same order, and
\* at most 5 of them; the id sent to the audio-features and recommendations
\* endpoints is the id of the search result at selected_index, which lies in
\* 0 .. len(track_options) - 1.
C5_SelectedTrackPassed ==
    /\ Len(track_options.v) = Len(tracks.v)
    /\ \A k \in DOMAIN track_options.v :
          /\ track_options.v[k].id = tracks.v[k].id
          /\ track_options.v[k].name = tracks.v[k].name
    /\ Len(track_options.v) <= 5
    /\ \A i \in DOMAIN requests :
          requests[i].endpoint \in {"audio-features", "recommendations"} =>
             /\ 0 <= selected_index
             /\ selected_index < Len(track_options.v)
             /\ requests[i].track_id = tracks.v[selected_index + 1].id
             /\ requests[i].track_id = track_id

C5_Witness ==
    /\ pc = "done"
    /\ Len(track_options.v) = 5
    /\ selected_index = 3
    /\ \E i \in DOMAIN requests :
          requests[i].endpoint = "audio-features" /\ requests[i].track_id = 5
    /\ \E i \in DOMAIN requests :
          requests[i].endpoint = "recommendations" /\ requests[i].track_id = 5

\* a credential that is missing (None) or empty
Unset(value) ==
    value = PyNone \/ value = PyStr("")

\* C6: when one of SPOTIFY_CLIENT_ID, SPOTIFY_CLIENT_SECRET and OPENAI_API_KEY
\* is missing or empty, the script shows an error and stops before main(): no
\* function of main() is called and no request is made.
C6_EnvGate ==
    (Unset(env.SPOTIFY_CLIENT_ID) \/ Unset(env.SPOTIFY_CLIENT_SECRET)
        \/ Unset(env.OPENAI_API_KEY))
    => /\ pc \in {"load", "stopped"}
       /\ requests = <<>>
       /\ calls = <<>>
       /\ pc = "stopped" => shown = <<"One or more environment variables are missing">>

C6_Witness ==
    /\ pc = "stopped"
    /\ env.SPOTIFY_CLIENT_ID = PyStr("set")
    /\ env.SPOTIFY_CLIENT_SECRET = PyStr("set")
    /\ env.OPENAI_API_KEY = PyStr("")
    /\ requests = <<>>

\* a line less its leading list number: digits, then a period, then spaces
RemoveListNumber(line) ==
    LET a == LStrip(line, Digits)
        b == IF a # <<>> /\ Head(a) = "." THEN Tail(a) ELSE a
    IN LStrip(b, {" "})

RECURSIVE NumberingRemoved(_)
NumberingRemoved(lines) ==
    IF lines = <<>> THEN <<>>
    ELSE IF Head(lines) # <<>>
         THEN <<RemoveListNumber(Head(lines))>> \o NumberingRemoved(Tail(lines))
         ELSE NumberingRemoved(Tail(lines))

\* C7: recommend_dj_places returns one entry per non-empty line of the
\* response, in order, each being the line with its leading list number
\* (digits, period, spaces) removed and otherwise unchanged; no entry begins
\* with a digit, a period or a space.
C7_NumberingRemoved ==
    pc = "cleaned" =>
       /\ dj_places.v = NumberingRemoved(Split(Strip(chat_content), "\n"))
       /\ \A k \in DOMAIN dj_places.v :
             dj_places.v[k] # <<>> => Head(dj_places.v[k]) \notin NumberingChars

\* C8: the prompt sent to the image endpoint depends on the description: with
\* the same audio features, another description gives another prompt.
C8_PromptDependsOnDescription ==
    \A i \in DOMAIN requests :
       requests[i].endpoint = "image" =>
          \A c \in DescriptionSamples :
             Strip(c) # description =>
                prompt_instruction(features.v, Strip(c)) # requests[i].arg

EnrichmentStages ==
    <<"recommend_dj_places", "generate_image_based_on_description",
      "get_track_recommendations">>

EnrichmentDone ==
    /\ pc = "done"
    /\ Len(calls) >= 3
    /\ SubSeq(calls, Len(calls) - 2, Len(calls)) = EnrichmentStages
    /\ \A k \in DOMAIN EnrichmentStages : CallCount(EnrichmentStages[k]) = 1
    /\ Truthy(dj_places) <=> Shown("Best Places or Settings for this Track:")
    /\ Truthy(image_url) <=> Shown("AI Generated Artwork")
    /\ Truthy(recommendations) <=> Shown("recommended tracks")

====
